---- MODULE Spec2Model ----
(***************************************************************************)
(* Model of the IVASMS monitor (src/src/monitor.py) and of its SQLite      *)
(* store (src/src/storage.py).                                             *)
(*                                                                         *)
(* A message is abstracted to its id (the string built from sender,        *)
(* displayed timestamp and body hash) and its received_at stamp; the site  *)
(* listing is external, so a scrape may return any newest-first batch.     *)
(* Coroutines are cut at their await points: the caller of                 *)
(* start()/start_monitoring() is one coroutine (mpc), every                *)
(* _monitoring_loop task is another (loop[t]).                             *)
(***************************************************************************)
EXTENDS Integers, Sequences, FiniteSets, TLC

\* ---------------------------------------------------------------- bounds
NumIds == 2      \* distinct message ids the site can show
MaxBatch == 2    \* rows of one scraped listing
MaxClock == 3    \* start-up loads and list-reading polls in one run
MaxLoops == 2    \* _monitoring_loop tasks alive at the same time
NumKeys == 2     \* keys of table bot_state
NumValues == 2   \* values of table bot_state
MaxLimit == 2    \* largest limit passed to get_recent_sms
MaxRows == 2     \* rows of the SMS page whose text is modelled
NumUsers == 3    \* Telegram users who send updates

None == 0        \* Python's None for Optional[str] last_seen_id
MsgIds == 1..NumIds
Tasks == 1..MaxLoops

\* Newest-first listings of at most MaxBatch ids (duplicates allowed: two
\* rows with the same sender, timestamp and body get the same id).
Batches == UNION {[1..n -> MsgIds] : n \in 0..MaxBatch}

VARIABLES
    connection,     \* Storage.connection is open
    rows,           \* table sms_messages
    page,           \* IVASMSMonitor.page is not None
    is_logged_in,   \* IVASMSMonitor.is_logged_in
    is_monitoring,  \* IVASMSMonitor.is_monitoring
    last_seen_id,   \* IVASMSMonitor.last_seen_id
    now,            \* the clock (datetime.now(), CURRENT_TIMESTAMP): one
                    \* turn per start-up load and per poll that finds the
                    \* list, one per Tick for a client of the Storage
    mpc,            \* position of the coroutine that calls start_monitoring
    load,           \* locals of _load_existing_messages
    loop,           \* per _monitoring_loop task: position and locals
    last_run,       \* ids of the batch of the reconcile step that completed
                    \* last with no save since, as <<ids>>; <<>> when none
    context,        \* self.context: "none", "open" or "closed"
    session_valid,  \* the site accepts the session of the current context
    boot,           \* the last start of the process: whether it was a
                    \* restart, last_seen_id when the previous process
                    \* exited, and last_seen_id as the first poll cycle of
                    \* this process read it
    bot_state,      \* table bot_state: key -> value, None when absent
    ret,            \* the last Storage call made directly: name, argument,
                    \* outcome of its statement, and what it returned
    ingested,       \* ids in the order of their last successful direct
                    \* save_sms, the latest last
    last_set,       \* key -> value of the last set_state that returned True
    hpc,            \* the bot's command handler: "idle", or the monitor
                    \* coroutine it awaits ("getotp", "history")
    listing,        \* the rows of the SMS page, with their texts
    hash_fn,        \* hash() on str in this Python process
    scrapes,        \* what the last two _scrape_messages of the listing
                    \* returned, the latest last
    browser,        \* self.browser: "none", "open" or "closed"
    loaded,         \* <<ids>> of the listing _load_existing_messages read,
                    \* until a poll cycle that follows the load has
                    \* scraped; <<>> otherwise
    history_view,   \* the page shows the result of a history query
    admin_ids,      \* config.admin_ids, the owner first
    fsm_state,      \* per Telegram user, the aiogram FSM state of the chat
    dispatched,     \* the last update the dispatcher handled: who sent
                    \* what, the handler that ran, whether it replied
                    \* access denied, the calls it went on to make, and
                    \* admin_ids as the handler found it
    popup,          \* the last _handle_popup called on its own: position,
                    \* loop counter, clicks made, what the page showed last
                    \* and what the call returned
    inflight,       \* per caller, the Storage statement it has handed to
                    \* the executor and still awaits
    fwd,            \* the last _send_sms_message: position, message, how
                    \* the send went, whether mark_forwarded was called
    life            \* where start() and cleanup() are followed step by step:
                    \* the last of them that returned, what it returned and
                    \* how its steps went

\* What the monitor's own actions leave alone.
\* The texts of the page and what the scraper made of them.
scrape_vars == <<listing, hash_fn, scrapes>>

\* The bot's sends and the Storage calls in the executor.
admin_vars == <<admin_ids, fsm_state, dispatched>>

chat_vars == <<inflight, fwd, admin_vars>>

ext == <<bot_state, ret, ingested, last_set, hpc, scrape_vars, life, popup,
         chat_vars>>

vars == <<connection, rows, page, is_logged_in, is_monitoring, last_seen_id,
          now, mpc, load, loop, last_run, context, session_valid, boot,
          browser, loaded, history_view, ext>>

\* ---------------------------------------------------------------- helpers
\* SMSMessage as built by _scrape_messages: forwarded keeps its default.
SMSMessage(id, stamp) == [id |-> id, received_at |-> stamp, forwarded |-> FALSE]

\* The messages a scrape at time stamp builds from the listing ids.
Scraped(ids, stamp) == [k \in 1..Len(ids) |-> SMSMessage(ids[k], stamp)]

IdsOf(messages) == [k \in 1..Len(messages) |-> messages[k].id]

\* reversed(new_messages)
ProcessOrderNewestFirst(new_messages) == new_messages

ProcessOrder(new_messages) ==
    [k \in 1..Len(new_messages) |-> new_messages[Len(new_messages) + 1 - k]]

\* The scan of _check_for_new_messages from row k on: rows are new until
\* the first one whose id is last_seen_id.
RECURSIVE ScanNewNoBreak(_, _, _)
ScanNewNoBreak(messages, cursor, k) ==
    IF k > Len(messages) THEN <<>>
    ELSE IF cursor = None \/ messages[k].id # cursor
         THEN <<messages[k]>> \o ScanNewNoBreak(messages, cursor, k + 1)
         ELSE ScanNewNoBreak(messages, cursor, k + 1)

RECURSIVE ScanNewOffByOne(_, _, _)
ScanNewOffByOne(messages, cursor, k) ==
    IF k >= Len(messages) THEN <<>>
    ELSE IF cursor = None \/ messages[k].id # cursor
         THEN <<messages[k]>> \o ScanNewOffByOne(messages, cursor, k + 1)
         ELSE <<>>

RECURSIVE ScanNewInclusive(_, _, _)
ScanNewInclusive(messages, cursor, k) ==
    IF k > Len(messages) THEN <<>>
    ELSE IF cursor = None \/ messages[k].id # cursor
         THEN <<messages[k]>> \o ScanNewInclusive(messages, cursor, k + 1)
         ELSE <<messages[k]>>

RECURSIVE ScanNew(_, _, _)
ScanNew(messages, cursor, k) ==
    IF k > Len(messages) THEN <<>>
    ELSE IF cursor = None \/ messages[k].id # cursor
         THEN <<messages[k]>> \o ScanNew(messages, cursor, k + 1)
         ELSE <<>>

\* INSERT OR REPLACE INTO sms_messages, id being the PRIMARY KEY.
save_sms_sync_NoKey(table, sms) ==
    table \cup {[id |-> sms.id, received_at |-> sms.received_at,
                 forwarded |-> sms.forwarded, created_at |-> now]}

\* created_at takes its DEFAULT CURRENT_TIMESTAMP, the clock read at the insert.
save_sms_sync(table, sms) ==
    {r \in table : r.id # sms.id}
        \cup {[id |-> sms.id, received_at |-> sms.received_at,
               forwarded |-> sms.forwarded, created_at |-> now]}

mark_forwarded_sync_NoWhere(table, sms_id) ==
    {[r EXCEPT !.forwarded = TRUE] : r \in table}

\* UPDATE sms_messages SET forwarded = TRUE WHERE id = ?
mark_forwarded_sync(table, sms_id) ==
    {IF r.id = sms_id THEN [r EXCEPT !.forwarded = TRUE] ELSE r : r \in table}

\* Outcomes of one save_sms call: False when the connection is None (the
\* AttributeError is caught) or when sqlite raises; True otherwise.
SaveOutcomes == IF connection THEN BOOLEAN ELSE {FALSE}

\* Locals of a batch ingestion, with its record: saved lists the ids handed to
\* save_sms in call order, first_fail is the position in saved of the first
\* call that returned False (0: none), c0 and c1 are last_seen_id when the
\* batch was read and after the last step taken.
NoLoad == [messages |-> <<>>, i |-> 0, saved |-> <<>>, first_fail |-> 0,
           c0 |-> None, c1 |-> None]

\* rerun: the step directly follows a completed reconcile step on the
\* same listing.
NoLoop == [pc |-> "none", messages |-> <<>>, new_messages |-> <<>>, i |-> 0,
           saved |-> <<>>, first_fail |-> 0, c0 |-> None, c1 |-> None,
           rerun |-> FALSE]

FirstFail(rec, ok) ==
    IF rec.first_fail = 0 /\ ~ok THEN rec.i + 1 ELSE rec.first_fail

\* Keys and values of table bot_state (opaque strings).
Keys == 1..NumKeys
Values == 1..NumValues

\* The first process: nothing to restore, no poll cycle yet.
NoBoot == [restarted |-> FALSE, cursor |-> None, polled |-> FALSE,
           read |-> None]

\* The first _check_for_new_messages of a restarted process reads cursor.
FirstPoll(b, cursor) ==
    IF b.restarted /\ ~b.polled
      THEN [b EXCEPT !.polled = TRUE, !.read = cursor]
      ELSE b

\* No Storage call made yet.
NoCall == [op |-> "none", arg |-> None, outcome |-> "ok", value |-> <<>>]

\* ------------------------------------------------------------------ texts
\* Texts are sequences of characters; Space stands for every whitespace.
Space == " "
Senders == {<<"a">>, <<"a", "_", "b">>, <<Space, "a">>}
Stamps == {<<"b">>, <<"b", "_", "b">>}
Bodies == {<<>>, <<Space>>, <<Space, "x">>}

\* A row of the page: the text_content() of its sender, timestamp and body
\* elements (an absent body reads as ""), and whether a locator call on the
\* row raises.
PageRows == [sender : Senders, timestamp : Stamps, body : Bodies,
             raises : BOOLEAN]
Pages == UNION {[1..n -> PageRows] : n \in 0..MaxRows}

\* str(hash(message)): CPython keys the hash of a str with a seed drawn when
\* the process starts. Within a process it is a function of the text, taken
\* here to be free of collisions on the bodies modelled.
HashValues == {<<"1">>, <<"2">>}
HashFns == {h \in [Bodies \ {<<>>} -> HashValues] :
               \A x, y \in DOMAIN h : h[x] = h[y] => x = y}

RECURSIVE lstrip(_)
lstrip(s) ==
    IF s # <<>> /\ Head(s) = Space THEN lstrip(Tail(s)) ELSE s

RECURSIVE rstrip(_)
rstrip(s) ==
    IF s # <<>> /\ s[Len(s)] = Space
      THEN rstrip(SubSeq(s, 1, Len(s) - 1))
      ELSE s

\* str.strip()
strip(s) == rstrip(lstrip(s))

\* f"{sender}_{timestamp}_{hash(message)}"
message_id(sender, timestamp, message, h) ==
    sender \o <<"_">> \o timestamp \o <<"_">> \o h[message]

\* The body of the loop over the rows: nothing for a row that raises or
\* whose body is falsy, else one SMSMessage. Field row tells which row of
\* the page the message was made from.
ScrapeRow(pg, k, h, stamp) ==
    IF pg[k].raises THEN <<>>
    ELSE IF pg[k].body = <<>> THEN <<>>
    ELSE <<[id |-> message_id(pg[k].sender, pg[k].timestamp, pg[k].body, h),
            sender |-> strip(pg[k].sender),
            message |-> strip(pg[k].body),
            timestamp |-> strip(pg[k].timestamp),
            received_at |-> stamp,
            row |-> k]>>

RECURSIVE ScrapeRows(_, _, _, _)
ScrapeRows(pg, n, h, stamp) ==
    IF n = 0 THEN <<>>
    ELSE ScrapeRows(pg, n - 1, h, stamp) \o ScrapeRow(pg, n, h, stamp)

\* No start() or cleanup() has returned yet.
NoLife == [op |-> "none", returned |-> TRUE, login |-> "none",
           closing |-> "none", replaced |-> FALSE]

\* The coroutines that await Storage calls: the monitor (initial load and
\* loop) and the bot (a command handler in _send_sms_message).
Callers == {"monitor", "bot"}
NoRun == [op |-> "none", arg |-> None]

\* Telegram user ids; ADMIN_IDS names the first of them.
Users == 1..NumUsers
InitialAdmins == <<1>>

\* No update handled yet.
NoDispatch == [sender |-> None, command |-> "none", handler |-> "none",
               denied |-> FALSE, calls |-> {}, admins |-> <<>>]

\* No _send_sms_message has been called yet.
NoFwd == [pc |-> "idle", id |-> None, sent |-> "none", marked |-> FALSE]

\* No _handle_popup has been called yet.
NoPopup == [pc |-> "idle", had_page |-> FALSE, attempt |-> 0, clicks |-> 0,
            seen |-> "none", result |-> <<>>]

\* ---------------------------------------------------------------- Init
InitObjects ==
    /\ connection = FALSE
    /\ rows = {}
    /\ page = FALSE
    /\ is_logged_in = FALSE
    /\ is_monitoring = FALSE
    /\ last_seen_id = None
    /\ now = 0
    /\ mpc = "idle"
    /\ load = NoLoad
    /\ loop = [t \in Tasks |-> NoLoop]
    /\ last_run = <<>>
    /\ context = "none"
    /\ session_valid = FALSE
    /\ boot = NoBoot
    /\ bot_state = [k \in Keys |-> None]
    /\ ret = NoCall
    /\ ingested = <<>>
    /\ last_set = [k \in Keys |-> None]
    /\ hpc = "idle"
    /\ browser = "none"
    /\ loaded = <<>>
    /\ history_view = FALSE
    /\ life = NoLife
    /\ popup = NoPopup
    /\ inflight = [c \in Callers |-> NoRun]
    /\ fwd = NoFwd
    /\ admin_ids = InitialAdmins
    /\ fsm_state = [u \in Users |-> "none"]
    /\ dispatched = NoDispatch

\* Where the texts of the rows play no part the page shows no row.
Init ==
    /\ InitObjects
    /\ listing = <<>>
    /\ hash_fn = CHOOSE h \in HashFns : TRUE
    /\ scrapes = <<>>

\* ---------------------------------------------------------------- Storage
\* Storage.initialize: connect and CREATE TABLE IF NOT EXISTS.
StorageInitialize ==
    /\ ~connection
    /\ connection' = TRUE
    /\ UNCHANGED <<rows, page, is_logged_in, is_monitoring, last_seen_id, now,
                   mpc, load, loop, last_run>>
    /\ UNCHANGED <<boot, ext>>
    /\ UNCHANGED <<context, session_valid, browser, loaded, history_view>>

\* Storage.close
StorageClose ==
    /\ connection
    /\ connection' = FALSE
    /\ UNCHANGED <<rows, page, is_logged_in, is_monitoring, last_seen_id, now,
                   mpc, load, loop, last_run>>
    /\ UNCHANGED <<boot, ext>>
    /\ UNCHANGED <<context, session_valid, browser, loaded, history_view>>

\* Storage.mark_forwarded, as called by the bot after a send.
MarkForwarded(sms_id) ==
    /\ rows' = IF connection THEN mark_forwarded_sync(rows, sms_id) ELSE rows
    /\ UNCHANGED <<connection, page, is_logged_in, is_monitoring, last_seen_id,
                   now, mpc, load, loop, last_run>>
    /\ UNCHANGED <<boot, ext>>
    /\ UNCHANGED <<context, session_valid, browser, loaded, history_view>>

\* ---------------------------------------------------------------- Monitor
\* "if self.context: await self.context.close()"
Closed(ctx) == IF ctx = "none" THEN "none" ELSE "closed"

\* What _scrape_messages can return: [] without a page, and [] when the page
\* does not show the message list (context closed, session not accepted: the
\* wait for the list raises and is caught).
Listings == IF page /\ session_valid THEN Batches ELSE {<<>>}

\* A poll whose scrape can find the list stamps its rows with datetime.now()
\* and takes a turn of the clock; one that cannot find it reads no clock.
Stamp(ids) ==
    IF Listings = {<<>>}
      THEN now' = now
      ELSE now < MaxClock /\ now' = now + 1

\* IVASMSMonitor.start: browser, context and page are created, then _login.
\* An exception (browser launch, page creation) runs cleanup() instead.
Start ==
    /\ mpc = "idle"
    /\ \E outcome \in {"logged_in", "rejected", "raised"} :
          /\ page' = IF outcome = "raised" THEN page ELSE TRUE
          /\ is_logged_in' = IF outcome = "logged_in" THEN TRUE
                             ELSE is_logged_in
          /\ is_monitoring' = IF outcome = "raised" THEN FALSE
                              ELSE is_monitoring
          /\ context' = IF outcome = "raised" THEN Closed(context) ELSE "open"
          /\ browser' = IF outcome = "raised" THEN Closed(browser) ELSE "open"
          /\ session_valid' = (outcome = "logged_in")
          /\ history_view' = IF outcome = "raised" THEN history_view
                             ELSE FALSE
    /\ UNCHANGED <<connection, rows, last_seen_id, now, mpc, load, loop,
                   last_run, loaded>>
    /\ UNCHANGED <<boot, ext>>

\* IVASMSMonitor.cleanup: context and browser are closed; page stays set.
Cleanup ==
    /\ is_monitoring' = FALSE
    /\ context' = Closed(context)
    /\ browser' = Closed(browser)
    /\ session_valid' = FALSE
    /\ UNCHANGED <<connection, rows, page, is_logged_in, last_seen_id, now,
                   mpc, load, loop, last_run, loaded, history_view>>
    /\ UNCHANGED <<boot, ext>>

\* start_monitoring up to the call of _load_existing_messages.
StartMonitoring ==
    /\ mpc = "idle"
    /\ is_logged_in
    /\ \E navigated \in BOOLEAN :
          IF navigated
          THEN /\ is_monitoring' = TRUE
               /\ mpc' = "load_scrape"
               /\ history_view' = FALSE
          ELSE UNCHANGED <<is_monitoring, mpc, history_view>>
    /\ UNCHANGED <<connection, rows, page, is_logged_in, last_seen_id, now,
                   load, loop, last_run>>
    /\ UNCHANGED <<boot, ext>>
    /\ UNCHANGED <<context, session_valid, browser, loaded>>

\* _load_existing_messages: _scrape_messages returns ids.
LoadScraped(ids) ==
    /\ mpc = "load_scrape"
    /\ now < MaxClock
    /\ now' = now + 1
    /\ ids \in Listings
    /\ load' = [NoLoad EXCEPT !.messages = Scraped(ids, now'),
                              !.c0 = last_seen_id,
                              !.c1 = last_seen_id]
    /\ mpc' = IF ids = <<>> THEN "spawn" ELSE "load_save"
    /\ UNCHANGED <<connection, rows, page, is_logged_in, is_monitoring,
                   last_seen_id, last_run>>
    /\ UNCHANGED loop
    /\ UNCHANGED <<boot, ext>>
    /\ UNCHANGED <<context, session_valid, browser, history_view>>

\* _load_existing_messages: _scrape_messages returns.
LoadScrape ==
    /\ \E ids \in Batches : LoadScraped(ids)
    /\ UNCHANGED loaded

\* The same, with the listing noted in loaded.
LoadScrapeNoted ==
    \E ids \in Batches : /\ LoadScraped(ids)
                         /\ loaded' = <<ids>>

\* _load_existing_messages: one turn of "for message in messages".
LoadSave ==
    /\ mpc = "load_save"
    /\ LET message == load.messages[load.i + 1] IN
       \E ok \in SaveOutcomes :
          /\ rows' = IF ok THEN save_sms_sync(rows, message) ELSE rows
          /\ last_seen_id' = message.id
          /\ load' = [load EXCEPT !.i = @ + 1,
                                  !.saved = Append(@, message.id),
                                  !.first_fail = FirstFail(load, ok),
                                  !.c1 = message.id]
          /\ mpc' = IF load.i + 1 = Len(load.messages)
                    THEN "spawn" ELSE "load_save"
    /\ last_run' = <<>>
    /\ UNCHANGED <<connection, page, is_logged_in, is_monitoring, now, loop>>
    /\ UNCHANGED <<boot, ext>>
    /\ UNCHANGED <<context, session_valid, browser, loaded, history_view>>

\* start_monitoring: asyncio.create_task(self._monitoring_loop()).
Spawn ==
    /\ mpc = "spawn"
    /\ \E t \in Tasks :
          /\ loop[t].pc = "none"
          /\ \A u \in Tasks : u < t => loop[u].pc # "none"
          /\ loop' = [loop EXCEPT ![t] = [NoLoop EXCEPT !.pc = "loop"]]
    /\ mpc' = "idle"
    /\ load' = NoLoad
    /\ UNCHANGED <<connection, rows, page, is_logged_in, is_monitoring,
                   last_seen_id, now, last_run>>
    /\ UNCHANGED <<boot, ext>>
    /\ UNCHANGED <<context, session_valid, browser, loaded, history_view>>

\* config.poll_interval: POLL_INTERVAL, 8 seconds unless the environment
\* sets it.
poll_interval == 8

\* The seconds _monitoring_loop sleeps after _check_for_new_messages has
\* returned, and in its except branch after it has raised.
LoopSleep(raised) == IF raised THEN poll_interval ELSE poll_interval

\* The levels of the records _check_for_new_messages has logged in the
\* cycle of record rec: "Found n new messages" and one "New SMS" for each
\* message it went through. Its logger.error is in the except branch, which
\* no step of the cycle reaches (save_sms returns False, never raises).
CheckLog(rec) == IF rec.new_messages # <<>> THEN {"info"} ELSE {}

\* A loop that runs "while True".
WakeIgnoresFlag(t) ==
    /\ loop[t].pc \in {"loop", "sleep"}
    /\ loop' = [loop EXCEPT ![t] = [NoLoop EXCEPT !.pc = "scrape"]]
    /\ UNCHANGED <<connection, rows, page, is_logged_in, is_monitoring,
                   last_seen_id, now, mpc, load, last_run>>
    /\ UNCHANGED <<boot, ext>>
    /\ UNCHANGED <<context, session_valid, browser, loaded, history_view>>

\* _monitoring_loop: "while self.is_monitoring", on entry and after a sleep.
Wake(t) ==
    /\ loop[t].pc \in {"loop", "sleep"}
    /\ loop' = [loop EXCEPT ![t] =
                  IF is_monitoring THEN [NoLoop EXCEPT !.pc = "scrape"] ELSE NoLoop]
    /\ UNCHANGED <<connection, rows, page, is_logged_in, is_monitoring,
                   last_seen_id, now, mpc, load, last_run>>
    /\ UNCHANGED <<boot, ext>>
    /\ UNCHANGED <<context, session_valid, browser, loaded, history_view>>

\* _check_for_new_messages: _scrape_messages returns, then the scan.
CheckScrapeResetsCursor(t) ==
    /\ loop[t].pc = "scrape"
    /\ \E ids \in Listings :
          /\ Stamp(ids)
          /\ LET messages == Scraped(ids, now')
                 new_messages == ScanNew(messages, last_seen_id, 1)
                 done == new_messages = <<>>
             IN /\ last_seen_id' = IF ids = <<>> THEN None ELSE last_seen_id
                /\ loop' = [loop EXCEPT ![t] =
                      [pc |-> IF done THEN "sleep" ELSE "save",
                       messages |-> messages, new_messages |-> new_messages,
                       i |-> 0, saved |-> <<>>, first_fail |-> 0,
                       c0 |-> last_seen_id,
                       c1 |-> last_seen_id',
                       rerun |-> last_run = <<ids>>]]
                /\ last_run' = IF done THEN <<ids>> ELSE last_run
    /\ UNCHANGED <<connection, rows, page, is_logged_in, is_monitoring,
                   mpc, load>>
    /\ UNCHANGED ext
    /\ boot' = FirstPoll(boot, last_seen_id)
    /\ loaded' = IF mpc = "idle" THEN <<>> ELSE loaded
    /\ UNCHANGED <<context, session_valid, browser, history_view>>

CheckScrape(t) ==
    /\ loop[t].pc = "scrape"
    /\ \E ids \in Listings :
          /\ Stamp(ids)
          /\ LET messages == Scraped(ids, now')
                 new_messages == ScanNew(messages, last_seen_id, 1)
                 done == new_messages = <<>>
             IN /\ loop' = [loop EXCEPT ![t] =
                      [pc |-> IF done THEN "sleep" ELSE "save",
                       messages |-> messages, new_messages |-> new_messages,
                       i |-> 0, saved |-> <<>>, first_fail |-> 0,
                       c0 |-> last_seen_id,
                       c1 |-> last_seen_id,
                       rerun |-> last_run = <<ids>>]]
                /\ last_run' = IF done THEN <<ids>> ELSE last_run
    /\ UNCHANGED <<connection, rows, page, is_logged_in, is_monitoring,
                   last_seen_id, mpc, load>>
    /\ UNCHANGED ext
    /\ boot' = FirstPoll(boot, last_seen_id)
    /\ loaded' = IF mpc = "idle" THEN <<>> ELSE loaded
    /\ UNCHANGED <<context, session_valid, browser, history_view>>

\* A save_sms that raises instead of returning False, nothing catching it.
CheckSaveRaises(t) ==
    /\ loop[t].pc = "save"
    /\ LET message == ProcessOrder(loop[t].new_messages)[loop[t].i + 1]
           done == loop[t].i + 1 = Len(loop[t].new_messages)
       IN \E ok \in SaveOutcomes :
             /\ rows' = IF ok THEN save_sms_sync(rows, message) ELSE rows
             /\ last_seen_id' = IF ok THEN message.id ELSE last_seen_id
             /\ loop' = IF ok
                          THEN [loop EXCEPT
                                  ![t].i = @ + 1,
                                  ![t].saved = Append(@, message.id),
                                  ![t].first_fail = FirstFail(loop[t], ok),
                                  ![t].c1 = message.id,
                                  ![t].pc = IF done THEN "sleep" ELSE "save"]
                          ELSE [loop EXCEPT ![t] = NoLoop]
             /\ last_run' = IF done /\ ok THEN <<IdsOf(loop[t].messages)>>
                                          ELSE <<>>
    /\ UNCHANGED <<connection, page, is_logged_in, is_monitoring, now, mpc,
                   load>>
    /\ UNCHANGED <<boot, ext>>
    /\ UNCHANGED <<context, session_valid, browser, loaded, history_view>>

\* _check_for_new_messages: one turn of "for message in reversed(new_messages)".
CheckSave(t) ==
    /\ loop[t].pc = "save"
    /\ LET message == ProcessOrder(loop[t].new_messages)[loop[t].i + 1]
           done == loop[t].i + 1 = Len(loop[t].new_messages)
       IN \E ok \in SaveOutcomes :
             /\ rows' = IF ok THEN save_sms_sync(rows, message) ELSE rows
             /\ last_seen_id' = message.id
             /\ loop' = [loop EXCEPT ![t].i = @ + 1,
                                     ![t].saved = Append(@, message.id),
                                     ![t].first_fail = FirstFail(loop[t], ok),
                                     ![t].c1 = message.id,
                                     ![t].pc = IF done THEN "sleep" ELSE "save"]
             /\ last_run' = IF done THEN <<IdsOf(loop[t].messages)>> ELSE <<>>
    /\ UNCHANGED <<connection, page, is_logged_in, is_monitoring, now, mpc,
                   load>>
    /\ UNCHANGED <<boot, ext>>
    /\ UNCHANGED <<context, session_valid, browser, loaded, history_view>>

Next ==
    \/ StorageInitialize
    \/ StorageClose
    \/ \E sms_id \in MsgIds : MarkForwarded(sms_id)
    \/ Start
    \/ Cleanup
    \/ StartMonitoring
    \/ LoadScrape
    \/ LoadSave
    \/ Spawn
    \/ \E t \in Tasks : Wake(t)
    \/ \E t \in Tasks : CheckScrape(t)
    \/ \E t \in Tasks : CheckSave(t)

Spec == Init /\ [][Next]_vars

\* ------------------------------------------------------------ Storage API
\* The public coroutines of Storage, called one at a time by a client (the
\* bot's handlers, the tests). Each wraps its statement in try/except: with
\* connection None the AttributeError is caught, and sqlite may raise.
CallOutcomes == IF connection THEN {"ok", "sqlite_error"} ELSE {"no_connection"}

monitor_vars == <<page, is_logged_in, is_monitoring, last_seen_id, mpc, load,
                  loop, last_run, context, session_valid, boot, scrape_vars,
                  browser, loaded, history_view, life, popup, chat_vars>>

Min(a, b) == IF a <= b THEN a ELSE b

Without(seq, x) == SelectSeq(seq, LAMBDA y : y # x)

\* The row as _get_recent_sms_sync rebuilds it: created_at is not selected.
RowMessage(r) == [id |-> r.id, received_at |-> r.received_at,
                  forwarded |-> r.forwarded]

\* SELECT ... ORDER BY created_at DESC LIMIT ?: every list of
\* min(limit, rows) distinct rows in which created_at never increases and
\* no omitted row is newer than a listed one. Rows with the same created_at
\* (CURRENT_TIMESTAMP has a resolution of one second) come in any order.
RecentResults(table, limit) ==
    LET n == Min(limit, Cardinality(table))
        Lists == {s \in [1..n -> table] :
                    /\ \A i, j \in 1..n : i < j =>
                          s[i] # s[j] /\ s[i].created_at >= s[j].created_at
                    /\ \A r \in table : (\A i \in 1..n : s[i] # r) =>
                          \A i \in 1..n : s[i].created_at >= r.created_at}
    IN  {[k \in 1..n |-> RowMessage(s[k])] : s \in Lists}

\* One second passes.
Tick ==
    /\ now < MaxClock
    /\ now' = now + 1
    /\ UNCHANGED <<connection, rows, monitor_vars, ext>>

\* Storage.save_sms(sms): True when the statement ran, False otherwise.
save_sms(sms_id) ==
    \E outcome \in CallOutcomes :
        /\ rows' = IF outcome = "ok"
                     THEN save_sms_sync(rows, SMSMessage(sms_id, now))
                     ELSE rows
        /\ ingested' = IF outcome = "ok"
                         THEN Append(Without(ingested, sms_id), sms_id)
                         ELSE ingested
        /\ ret' = [op |-> "save_sms", arg |-> sms_id, outcome |-> outcome,
                   value |-> <<outcome = "ok">>]
        /\ UNCHANGED <<connection, now, monitor_vars, bot_state, last_set, hpc>>

\* mark_forwarded without its except branch: True whatever the statement did.
mark_forwarded_ReturnsTrue(sms_id) ==
    \E outcome \in CallOutcomes :
        /\ rows' = IF outcome = "ok" THEN mark_forwarded_sync(rows, sms_id)
                                     ELSE rows
        /\ ret' = [op |-> "mark_forwarded", arg |-> sms_id,
                   outcome |-> outcome, value |-> <<TRUE>>]
        /\ UNCHANGED <<connection, now, monitor_vars, bot_state, ingested,
                       last_set, hpc>>

\* Storage.mark_forwarded(sms_id)
mark_forwarded(sms_id) ==
    \E outcome \in CallOutcomes :
        /\ rows' = IF outcome = "ok" THEN mark_forwarded_sync(rows, sms_id)
                                     ELSE rows
        /\ ret' = [op |-> "mark_forwarded", arg |-> sms_id,
                   outcome |-> outcome, value |-> <<outcome = "ok">>]
        /\ UNCHANGED <<connection, now, monitor_vars, bot_state, ingested,
                       last_set, hpc>>

\* Storage.get_recent_sms(limit): the list, [] when the query raised.
get_recent_sms(limit) ==
    \E outcome \in CallOutcomes :
        \E messages \in IF outcome = "ok" THEN RecentResults(rows, limit)
                                          ELSE {<<>>} :
            /\ ret' = [op |-> "get_recent_sms", arg |-> limit,
                       outcome |-> outcome, value |-> messages]
            /\ UNCHANGED <<connection, rows, now, monitor_vars, bot_state,
                           ingested, last_set, hpc>>

\* Storage.get_last_sms: messages[0] of get_recent_sms(1), None (the empty
\* value) when that list is empty.
get_last_sms ==
    \E outcome \in CallOutcomes :
        \E messages \in IF outcome = "ok" THEN RecentResults(rows, 1)
                                          ELSE {<<>>} :
            /\ ret' = [op |-> "get_last_sms", arg |-> None,
                       outcome |-> outcome,
                       value |-> IF messages # <<>> THEN <<messages[1]>>
                                                    ELSE <<>>]
            /\ UNCHANGED <<connection, rows, now, monitor_vars, bot_state,
                           ingested, last_set, hpc>>

NextStore ==
    \/ StorageInitialize
    \/ StorageClose
    \/ Tick
    \/ \E sms_id \in MsgIds : save_sms(sms_id)
    \/ \E sms_id \in MsgIds : mark_forwarded(sms_id)
    \/ \E limit \in 0..MaxLimit : get_recent_sms(limit)
    \/ get_last_sms

SpecStore == Init /\ [][NextStore]_vars

\* INSERT OR REPLACE INTO bot_state (key, value), key being the PRIMARY KEY.
set_state_sync_OrIgnore(table, key, value) ==
    IF table[key] = None THEN [table EXCEPT ![key] = value] ELSE table

set_state_sync(table, key, value) == [table EXCEPT ![key] = value]

\* SELECT value FROM bot_state WHERE key = ?: the value, None (the empty
\* value) when there is no row.
get_state_sync(table, key) ==
    IF table[key] = None THEN <<>> ELSE <<table[key]>>

\* Storage.set_state(key, value)
set_state(key, value) ==
    \E outcome \in CallOutcomes :
        /\ bot_state' = IF outcome = "ok"
                          THEN set_state_sync(bot_state, key, value)
                          ELSE bot_state
        /\ last_set' = IF outcome = "ok"
                         THEN [last_set EXCEPT ![key] = value]
                         ELSE last_set
        /\ ret' = [op |-> "set_state", arg |-> key, outcome |-> outcome,
                   value |-> <<outcome = "ok">>]
        /\ UNCHANGED <<connection, rows, now, monitor_vars, ingested, hpc>>

\* Storage.get_state(key): the value, None when the query raised.
get_state(key) ==
    \E outcome \in CallOutcomes :
        /\ ret' = [op |-> "get_state", arg |-> key, outcome |-> outcome,
                   value |-> IF outcome = "ok"
                               THEN get_state_sync(bot_state, key)
                               ELSE <<>>]
        /\ UNCHANGED <<connection, rows, now, monitor_vars, bot_state,
                       ingested, last_set, hpc>>

NextState ==
    \/ StorageInitialize
    \/ StorageClose
    \/ \E key \in Keys, value \in Values : set_state(key, value)
    \/ \E key \in Keys : get_state(key)

SpecState == Init /\ [][NextState]_vars

\* Both tables of one Storage.
NextStorage ==
    \/ NextStore
    \/ NextState

SpecStorage == Init /\ [][NextStorage]_vars

\* ------------------------------------------------------- the first cycle
\* The monitor over an initialized Storage, the listing of each initial load
\* noted until the poll cycle that follows it.
NextNoted ==
    \/ StorageInitialize
    \/ Start
    \/ Cleanup
    \/ StartMonitoring
    \/ LoadScrapeNoted
    \/ LoadSave
    \/ Spawn
    \/ \E t \in Tasks : Wake(t)
    \/ \E t \in Tasks : CheckScrape(t)
    \/ \E t \in Tasks : CheckSave(t)

SpecNoted == Init /\ [][NextNoted]_vars

\* ------------------------------------------------------------ the session
\* The site ends the session (expiry, a login elsewhere): the page of the
\* context is sent back to the login form.
SiteLogout ==
    /\ session_valid
    /\ session_valid' = FALSE
    /\ UNCHANGED <<connection, rows, page, is_logged_in, is_monitoring,
                   last_seen_id, now, mpc, load, loop, last_run, context,
                   browser, loaded, history_view, boot, ext>>

\* The monitor as the bot runs it: its Storage is never initialized.
NextMonitor ==
    \/ Start
    \/ Cleanup
    \/ StartMonitoring
    \/ LoadScrape
    \/ LoadSave
    \/ Spawn
    \/ \E t \in Tasks : Wake(t)
    \/ \E t \in Tasks : CheckScrape(t)
    \/ \E t \in Tasks : CheckSave(t)

\* The monitor with a site that can end the session.
NextSess ==
    \/ NextMonitor
    \/ SiteLogout

\* The event loop runs every task that is ready, and every sleep ends.
SpecSess ==
    /\ Init
    /\ [][NextSess]_vars
    /\ \A t \in Tasks : /\ WF_vars(Wake(t))
                        /\ WF_vars(CheckScrape(t))
                        /\ WF_vars(CheckSave(t))

\* ------------------------------------------------------------ the process
\* The process exits and is started again: BotManager builds a new
\* OTPForwarderBot, whose __init__ builds Storage() and IVASMSMonitor(storage).
\* The database file keeps its tables; every attribute starts afresh, the
\* tasks of the old process are gone and the interpreter draws its hash seed
\* anew.
ProcessRestart ==
    /\ boot' = [restarted |-> TRUE, cursor |-> last_seen_id,
                polled |-> FALSE, read |-> None]
    /\ connection' = FALSE
    /\ page' = FALSE
    /\ is_logged_in' = FALSE
    /\ is_monitoring' = FALSE
    /\ last_seen_id' = None
    /\ mpc' = "idle"
    /\ load' = NoLoad
    /\ loop' = [t \in Tasks |-> NoLoop]
    /\ last_run' = <<>>
    /\ context' = "none"
    /\ session_valid' = FALSE
    /\ hash_fn' \in HashFns
    /\ browser' = "none"
    /\ loaded' = <<>>
    /\ history_view' = FALSE
    /\ life' = NoLife
    /\ popup' = NoPopup
    /\ admin_ids' = InitialAdmins
    /\ fsm_state' = [u \in Users |-> "none"]
    /\ dispatched' = NoDispatch
    /\ UNCHANGED <<inflight, fwd>>
    /\ UNCHANGED <<rows, now, bot_state, ret, ingested, last_set, hpc,
                   listing, scrapes>>

NextProc ==
    \/ NextMonitor
    \/ ProcessRestart

SpecProc == Init /\ [][NextProc]_vars

\* ---------------------------------------------------------------- the bot
store_ext == <<bot_state, ret, ingested, last_set>>

everything_but_hpc ==
    <<connection, rows, now, monitor_vars, store_ext>>

\* _handle_getotp, for an admin: with is_logged_in it awaits
\* monitor._scrape_messages(), which works on self.page.
HandleGetotp ==
    /\ hpc = "idle"
    /\ is_logged_in
    /\ hpc' = "getotp"
    /\ UNCHANGED everything_but_hpc

\* What get_history can do to the page: navigate_to_sms_page fails (the
\* page is left as it was), or it shows the list and there is no Get SMS
\* button, or the button is clicked and the page shows the rows of the date
\* range. Nothing navigates back afterwards.
HistoryRuns ==
    IF context = "open" /\ session_valid
      THEN {"navigation_failed", "no_button", "clicked"}
      ELSE {"navigation_failed"}

\* _handle_history, for an admin and two valid dates: it awaits
\* monitor.get_history(), which with a page navigates, fills the dates,
\* clicks and scrapes.
HandleHistory ==
    /\ hpc = "idle"
    /\ page
    /\ hpc' = "history"
    /\ \E run \in HistoryRuns :
          history_view' = CASE run = "clicked" -> TRUE
                            [] run = "no_button" -> FALSE
                            [] OTHER -> history_view
    /\ UNCHANGED <<connection, rows, now, store_ext>>
    /\ UNCHANGED <<page, is_logged_in, is_monitoring, last_seen_id, mpc, load,
                   loop, last_run, context, session_valid, boot, scrape_vars,
                   browser, loaded, life, popup, chat_vars>>

\* The awaited coroutine returns; the handler sends what it got to the chat.
HandlerReturn ==
    /\ hpc # "idle"
    /\ hpc' = "idle"
    /\ UNCHANGED everything_but_hpc

NextBot ==
    \/ NextMonitor
    \/ HandleGetotp
    \/ HandleHistory
    \/ HandlerReturn

SpecBot == Init /\ [][NextBot]_vars

\* ------------------------------------------------------------ the scraper
\* One SMS page with the texts of its rows, scraped by a monitor that logs
\* in, and by the one of a later process.
InitScrape ==
    /\ InitObjects
    /\ listing \in Pages
    /\ hash_fn \in HashFns
    /\ scrapes = <<>>

\* _scrape_messages without the try around the extraction of a row: a row
\* that raises ends the scrape in the outer except, which returns [].
ScrapeMessagesAborts ==
    /\ LET found == page /\ session_valid
           result == [found |-> found,
                      messages |-> IF found /\ \A k \in DOMAIN listing :
                                                   ~listing[k].raises
                                     THEN ScrapeRows(listing, Len(listing),
                                                     hash_fn, now)
                                     ELSE <<>>]
       IN  scrapes' = IF scrapes = <<>> THEN <<result>>
                      ELSE <<scrapes[Len(scrapes)], result>>
    /\ UNCHANGED <<listing, hash_fn, browser, loaded, history_view, life,
                   popup, chat_vars>>
    /\ UNCHANGED <<connection, rows, now, bot_state, ret, ingested, last_set,
                   hpc>>
    /\ UNCHANGED <<page, is_logged_in, is_monitoring, last_seen_id, mpc, load,
                   loop, last_run, context, session_valid, boot>>

\* _scrape_messages: [] without a page or when the message list does not
\* load, else what the loop over the rows collects. Field found tells
\* whether the list loaded.
ScrapeMessages ==
    /\ LET found == page /\ session_valid
           result == [found |-> found,
                      messages |-> IF found
                                     THEN ScrapeRows(listing, Len(listing),
                                                     hash_fn, now)
                                     ELSE <<>>]
       IN  scrapes' = IF scrapes = <<>> THEN <<result>>
                      ELSE <<scrapes[Len(scrapes)], result>>
    /\ UNCHANGED <<listing, hash_fn, browser, loaded, history_view, life,
                   popup, chat_vars>>
    /\ UNCHANGED <<connection, rows, now, bot_state, ret, ingested, last_set,
                   hpc>>
    /\ UNCHANGED <<page, is_logged_in, is_monitoring, last_seen_id, mpc, load,
                   loop, last_run, context, session_valid, boot>>

NextScrape ==
    \/ Start
    \/ ScrapeMessages
    \/ ProcessRestart

SpecScrape == InitScrape /\ [][NextScrape]_vars

\* ------------------------------------------------------------ the browser
\* start() and cleanup() step by step, with the browser and with closes that
\* can raise. Start and Cleanup above are these two where every close
\* succeeds and a start that raises does so before it sets self.context.

\* How the try block of cleanup() can run: to its end, or up to a close()
\* that raises, which the except logs.
Closings(ctx, brw) ==
    {"closed"} \cup (IF ctx # "none" THEN {"context_raised"} ELSE {})
               \cup (IF brw # "none" THEN {"browser_raised"} ELSE {})

\* self.context after the try block: a close() that raises closes nothing.
ContextAfter(ctx, closing) ==
    IF closing = "context_raised" THEN ctx ELSE Closed(ctx)

\* self.browser after it: reached only when closing the context returned.
BrowserAfter(brw, closing) ==
    IF closing = "closed" THEN Closed(brw) ELSE brw

\* cleanup()
cleanup ==
    /\ \E closing \in Closings(context, browser) :
          /\ is_monitoring' = FALSE
          /\ context' = ContextAfter(context, closing)
          /\ browser' = BrowserAfter(browser, closing)
          /\ session_valid' = (session_valid /\ context' = "open")
          /\ life' = [op |-> "cleanup", returned |-> TRUE, login |-> "none",
                      closing |-> closing, replaced |-> FALSE]
    /\ UNCHANGED <<connection, rows, page, is_logged_in, last_seen_id, now,
                   mpc, load, loop, last_run, boot, loaded, history_view>>
    /\ UNCHANGED <<bot_state, ret, ingested, last_set, hpc, scrape_vars,
                   popup, chat_vars>>

\* start(): launch, new_context and new_page set browser, context and page
\* in turn; one that raises leads to the except, which runs cleanup() and
\* returns False. Then _login, which returns False when the site keeps the
\* login form and when one of its steps raises (it catches the exception).
\* Field replaced tells that launch assigned self.browser while the browser
\* it held was open.
start ==
    /\ mpc = "idle"
    /\ \E run \in {"logged_in", "rejected", "login_raised", "launch_raised",
                    "context_raised", "page_raised"} :
          IF run \in {"logged_in", "rejected", "login_raised"}
            THEN /\ browser' = "open"
                 /\ context' = "open"
                 /\ page' = TRUE
                 /\ is_logged_in' = IF run = "logged_in" THEN TRUE
                                    ELSE is_logged_in
                 /\ session_valid' = (run = "logged_in")
                 /\ life' = [op |-> "start", returned |-> run = "logged_in",
                             login |-> run, closing |-> "none",
                             replaced |-> browser = "open"]
                 /\ history_view' = FALSE
                 /\ UNCHANGED is_monitoring
            ELSE LET brw == IF run = "launch_raised" THEN browser ELSE "open"
                     ctx == IF run = "page_raised" THEN "open" ELSE context
                 IN  \E closing \in Closings(ctx, brw) :
                       /\ is_monitoring' = FALSE
                       /\ context' = ContextAfter(ctx, closing)
                       /\ browser' = BrowserAfter(brw, closing)
                       /\ session_valid' = FALSE
                       /\ life' = [op |-> "start", returned |-> FALSE,
                                   login |-> "none", closing |-> closing,
                                   replaced |-> run # "launch_raised"
                                                /\ browser = "open"]
                       /\ history_view' = (history_view
                                           /\ run = "launch_raised")
                       /\ UNCHANGED <<page, is_logged_in>>
    /\ UNCHANGED <<connection, rows, last_seen_id, now, mpc, load, loop,
                   last_run, boot, loaded>>
    /\ UNCHANGED <<bot_state, ret, ingested, last_set, hpc, scrape_vars,
                   popup, chat_vars>>

NextLife ==
    \/ start
    \/ cleanup
    \/ StartMonitoring
    \/ LoadScrape
    \/ LoadSave
    \/ Spawn
    \/ \E t \in Tasks : Wake(t)
    \/ \E t \in Tasks : CheckScrape(t)
    \/ \E t \in Tasks : CheckSave(t)

SpecLife == Init /\ [][NextLife]_vars

\* -------------------------------------------------------------- the popup
\* _handle_popup called on a monitor, cut at its awaits.
max_attempts == 5

popup_unchanged ==
    <<connection, rows, page, is_logged_in, is_monitoring, last_seen_id, now,
      mpc, load, loop, last_run, context, session_valid, boot, browser,
      loaded, history_view, bot_state, ret, ingested, last_set, hpc,
      scrape_vars, life, chat_vars>>

\* The call: "if not self.page: return False", else the first sleep.
HandlePopupCall ==
    /\ popup.pc \in {"idle", "returned"}
    /\ popup' = [NoPopup EXCEPT !.had_page = page,
                                !.pc = IF page THEN "detect" ELSE "returned",
                                !.result = IF page THEN <<>> ELSE <<FALSE>>]
    /\ UNCHANGED popup_unchanged

\* The search for the popup: each wait_for_selector that raises is passed
\* over. Without a popup the call returns True; a statement outside the
\* inner try blocks that raises (a selector missing from the config) ends
\* in the outer except, which returns True.
HandlePopupDetect ==
    /\ popup.pc = "detect"
    /\ \E seen \in {"popup", "no_popup", "raised"} :
          popup' = [popup EXCEPT !.seen = seen,
                                 !.pc = IF seen = "popup" THEN "attempt"
                                        ELSE "returned",
                                 !.result = IF seen = "popup" THEN <<>>
                                            ELSE <<TRUE>>]
    /\ UNCHANGED popup_unchanged

\* One turn of "for attempt in range(max_attempts)" that counts each turn
\* but the one that clicks Next.
HandlePopupAttemptUncounted ==
    /\ popup.pc = "attempt"
    /\ popup.attempt < max_attempts
    /\ popup.clicks <= max_attempts
    /\ \E seen \in {"next", "next_raised", "done", "done_raised",
                     "no_button", "count_raised"} :
          LET clicked == seen \in {"next", "next_raised", "done",
                                   "done_raised"}
              attempt == IF seen = "next" THEN popup.attempt
                         ELSE popup.attempt + 1
              break == seen \in {"done", "no_button"}
          IN  popup' = [popup EXCEPT
                  !.seen = seen,
                  !.attempt = attempt,
                  !.clicks = IF clicked THEN @ + 1 ELSE @,
                  !.pc = IF break \/ attempt = max_attempts THEN "settle"
                         ELSE "attempt"]
    /\ UNCHANGED popup_unchanged

\* One turn of "for attempt in range(max_attempts)": click Next and go on;
\* click Done and break; no button, break; a count() or click() that raises
\* is logged, and the loop goes on unless this was the last turn.
HandlePopupAttempt ==
    /\ popup.pc = "attempt"
    /\ popup.attempt < max_attempts
    /\ \E seen \in {"next", "next_raised", "done", "done_raised",
                     "no_button", "count_raised"} :
          LET clicked == seen \in {"next", "next_raised", "done",
                                   "done_raised"}
              break == seen \in {"done", "no_button"}
          IN  popup' = [popup EXCEPT
                  !.seen = seen,
                  !.attempt = @ + 1,
                  !.clicks = IF clicked THEN @ + 1 ELSE @,
                  !.pc = IF break \/ popup.attempt + 1 = max_attempts
                           THEN "settle"
                           ELSE "attempt"]
    /\ UNCHANGED popup_unchanged

\* After the loop: the last sleep, then "return True".
HandlePopupReturn ==
    /\ popup.pc = "settle"
    /\ popup' = [popup EXCEPT !.pc = "returned", !.result = <<TRUE>>]
    /\ UNCHANGED popup_unchanged

NextPopup ==
    \/ Start
    \/ HandlePopupCall
    \/ HandlePopupDetect
    \/ HandlePopupAttempt
    \/ HandlePopupReturn

SpecPopup == Init /\ [][NextPopup]_vars

\* --------------------------------------------------------- the forwarding
\* Storage calls as the event loop sees them: run_in_executor hands the
\* statement to a thread of the default pool and the calling coroutine is
\* suspended until it is done, while the other coroutines run. Nothing in
\* Storage holds a lock. A statement run on another thread of the pool than
\* the one that connected is among the "sqlite_error" outcomes.
fwd_unchanged ==
    <<page, is_logged_in, is_monitoring, last_seen_id, now, mpc, load, loop,
      last_run, context, session_valid, boot, browser, loaded, history_view,
      bot_state, ret, ingested, last_set, hpc, scrape_vars, life, popup,
      admin_vars>>

\* The monitor awaits storage.save_sms(message): _save_sms_sync is handed
\* to the executor.
SaveSmsSubmit(sms_id) ==
    /\ inflight["monitor"].op = "none"
    /\ inflight' = [inflight EXCEPT !["monitor"] =
                        [op |-> "save_sms", arg |-> sms_id]]
    /\ UNCHANGED <<connection, rows, fwd>>
    /\ UNCHANGED fwd_unchanged

\* _save_sms_sync has run (or raised) and save_sms returns.
SaveSmsDone ==
    /\ inflight["monitor"].op = "save_sms"
    /\ \E outcome \in CallOutcomes :
          rows' = IF outcome = "ok"
                    THEN save_sms_sync(rows,
                             SMSMessage(inflight["monitor"].arg, now))
                    ELSE rows
    /\ inflight' = [inflight EXCEPT !["monitor"] = NoRun]
    /\ UNCHANGED <<connection, fwd>>
    /\ UNCHANGED fwd_unchanged

\* _send_sms_message(chat_id, sms), called by a handler for each message
\* it shows: up to the await of bot.send_message.
SendSmsMessage(sms_id) ==
    /\ fwd.pc \in {"idle", "returned"}
    /\ fwd' = [pc |-> "send", id |-> sms_id, sent |-> "none",
               marked |-> FALSE]
    /\ UNCHANGED <<connection, rows, inflight>>
    /\ UNCHANGED fwd_unchanged

\* bot.send_message is over and mark_forwarded is called whatever it did.
SendMessageReturnsMarksAnyway ==
    /\ fwd.pc = "send"
    /\ \E sent \in {"ok", "raised"} :
          /\ fwd' = [fwd EXCEPT !.sent = sent, !.marked = TRUE,
                                !.pc = "mark"]
          /\ inflight' = [inflight EXCEPT !["bot"] =
                              [op |-> "mark_forwarded", arg |-> fwd.id]]
    /\ UNCHANGED <<connection, rows>>
    /\ UNCHANGED fwd_unchanged

\* bot.send_message is over: when it returned, mark_forwarded(sms.id) is
\* called; when it raised, the except logs and the function returns.
SendMessageReturns ==
    /\ fwd.pc = "send"
    /\ \E sent \in {"ok", "raised"} :
          /\ fwd' = [fwd EXCEPT !.sent = sent, !.marked = (sent = "ok"),
                                !.pc = IF sent = "ok" THEN "mark"
                                       ELSE "returned"]
          /\ inflight' = [inflight EXCEPT !["bot"] =
                              IF sent = "ok"
                                THEN [op |-> "mark_forwarded", arg |-> fwd.id]
                                ELSE NoRun]
    /\ UNCHANGED <<connection, rows>>
    /\ UNCHANGED fwd_unchanged

\* _mark_forwarded_sync has run (or raised), mark_forwarded returns and so
\* does _send_sms_message.
MarkForwardedDone ==
    /\ inflight["bot"].op = "mark_forwarded"
    /\ \E outcome \in CallOutcomes :
          rows' = IF outcome = "ok"
                    THEN mark_forwarded_sync(rows, inflight["bot"].arg)
                    ELSE rows
    /\ inflight' = [inflight EXCEPT !["bot"] = NoRun]
    /\ fwd' = [fwd EXCEPT !.pc = "returned"]
    /\ UNCHANGED connection
    /\ UNCHANGED fwd_unchanged

NextFwd ==
    \/ StorageInitialize
    \/ \E sms_id \in MsgIds : SaveSmsSubmit(sms_id)
    \/ SaveSmsDone
    \/ \E sms_id \in MsgIds : SendSmsMessage(sms_id)
    \/ SendMessageReturns
    \/ MarkForwardedDone

SpecFwd == Init /\ [][NextFwd]_vars

\* -------------------------------------------------------------- the admins
\* The dispatcher hands an update to the first registered handler whose
\* filter matches: the command handlers in the order of _register_handlers,
\* then admin_id_input_handler, whose filter is the FSM state
\* waiting_for_admin_id of the sender. What the handlers call once they are
\* past their check is followed in the sections above; here a handler is the
\* check it starts with, the calls it goes on to make and what it does to
\* admin_ids.
Commands == {"start", "status", "config", "set_admin", "recent", "last",
             "history", "getotp", "restart", "help", "text"}

SeqRange(seq) == {seq[k] : k \in DOMAIN seq}

\* config.is_admin
is_admin(user_id) == user_id \in SeqRange(admin_ids)

\* _check_admin
check_admin(sender) == is_admin(sender)

\* _check_owner accepting every admin.
check_owner_AnyAdmin(sender) ==
    is_admin(sender)

\* _check_owner
check_owner(sender) ==
    admin_ids # <<>> /\ sender = admin_ids[1]

\* The handler an update reaches.
HandlerOf(sender, command) ==
    IF command # "text" THEN command
    ELSE IF fsm_state[sender] = "waiting_for_admin_id" THEN "admin_id_input"
    ELSE "unhandled"

\* The check a handler starts with.
Passes(handler, sender) ==
    CASE handler \in {"status", "config", "recent", "last", "history",
                      "getotp"} -> check_admin(sender)
      [] handler \in {"set_admin", "restart"} -> check_owner(sender)
      [] OTHER -> TRUE

\* What a handler calls after its check: Storage queries, scrapes of the
\* monitor's page, _send_sms_message (a chat send, then mark_forwarded),
\* stop() and start().
HandlerCalls(handler) ==
    CASE handler = "status" -> {"store_read"}
      [] handler \in {"recent", "last"} ->
             {"store_read", "send", "mark_forwarded"}
      [] handler = "history" ->
             {"scrape", "store_read", "send", "mark_forwarded"}
      [] handler = "getotp" -> {"scrape", "send", "mark_forwarded"}
      [] handler = "restart" -> {"restart", "scrape"}
      [] OTHER -> {}

\* _handle_set_admin past its check and _handle_admin_id_input append the
\* id they are given (arg None: no id, or text that int() rejects) unless
\* it is in the list.
Appends(handler, arg) ==
    /\ handler \in {"set_admin", "admin_id_input"}
    /\ arg # None
    /\ ~is_admin(arg)

\* One update, from the dispatcher to the return of its handler.
Dispatch(sender, command, arg) ==
    LET handler == HandlerOf(sender, command)
        passes == Passes(handler, sender)
    IN  /\ admin_ids' = IF passes /\ Appends(handler, arg)
                          THEN Append(admin_ids, arg)
                          ELSE admin_ids
        /\ fsm_state' = IF handler = "admin_id_input"
                          THEN [fsm_state EXCEPT ![sender] = "none"]
                          ELSE fsm_state
        /\ dispatched' = [sender |-> sender, command |-> command,
                          handler |-> handler, denied |-> ~passes,
                          calls |-> IF passes THEN HandlerCalls(handler)
                                              ELSE {},
                          admins |-> admin_ids]
        /\ UNCHANGED <<connection, rows, page, is_logged_in, is_monitoring,
                       last_seen_id, now, mpc, load, loop, last_run, context,
                       session_valid, boot, browser, loaded, history_view>>
        /\ UNCHANGED <<bot_state, ret, ingested, last_set, hpc, scrape_vars,
                       life, popup, inflight, fwd>>

NextAdmin ==
    \E sender \in Users, command \in Commands, arg \in Users \cup {None} :
        Dispatch(sender, command, arg)

SpecAdmin == Init /\ [][NextAdmin]_vars

\* ---------------------------------------------------------------- claims
\* A reconcile step (_check_for_new_messages) of task t has completed.
StepDone(t) == loop[t].pc = "sleep"

\* The initial load (_load_existing_messages) has completed.
LoadDone == mpc = "spawn"

\* A poll cycle of task t is under way.
InCycle(t) == loop[t].pc \in {"scrape", "save"}

Count(seq, x) == Cardinality({k \in DOMAIN seq : seq[k] = x})

\* seq lists exactly the first n elements of ids, in any order.
SameElements(seq, ids, n) ==
    /\ Len(seq) = n
    /\ \A x \in MsgIds : Count(seq, x) = Count(SubSeq(ids, 1, n), x)

\* Position of the first row of messages whose id is c (0: none).
FirstAt(messages, c) ==
    IF \E k \in DOMAIN messages : messages[k].id = c
    THEN CHOOSE k \in DOMAIN messages :
            /\ messages[k].id = c
            /\ \A j \in 1..(k - 1) : messages[j].id # c
    ELSE 0

\* C1: a reconcile step that directly follows a completed reconcile step on
\* the same batch hands no message to save_sms and ends with last_seen_id
\* as it found it.
InvC1 ==
    \A t \in Tasks :
        loop[t].rerun =>
            /\ StepDone(t)
            /\ loop[t].saved = <<>>
            /\ loop[t].c1 = loop[t].c0

WitC1 ==
    \E t \in Tasks :
        /\ loop[t].rerun
        /\ StepDone(t)
        /\ Len(loop[t].messages) >= 2
        /\ loop[t].messages[1].id # loop[t].messages[2].id

\* C2: when last_seen_id is the id of a row of the batch, the completed step
\* has handed to save_sms exactly the rows before the first such row, and
\* when there is such a row the cursor ends at the newest row.
InvC2 ==
    \A t \in Tasks :
        LET b == FirstAt(loop[t].messages, loop[t].c0) IN
        (StepDone(t) /\ loop[t].c0 # None /\ b # 0) =>
            /\ SameElements(loop[t].saved, IdsOf(loop[t].messages), b - 1)
            /\ b > 1 => loop[t].c1 = loop[t].messages[1].id

WitC2 ==
    \E t \in Tasks :
        /\ StepDone(t)
        /\ loop[t].c0 # None
        /\ FirstAt(loop[t].messages, loop[t].c0) = 2
        /\ loop[t].saved = <<loop[t].messages[1].id>>

\* C3: when last_seen_id is set and no row of a non-empty batch has that id,
\* every row is classified new and handed to save_sms, and every row is in
\* the store unless a save_sms call failed.
InvC3 ==
    \A t \in Tasks :
        (/\ StepDone(t)
         /\ loop[t].c0 # None
         /\ loop[t].messages # <<>>
         /\ FirstAt(loop[t].messages, loop[t].c0) = 0) =>
            /\ loop[t].new_messages = loop[t].messages
            /\ SameElements(loop[t].saved, IdsOf(loop[t].messages),
                            Len(loop[t].messages))
            /\ loop[t].first_fail = 0 =>
                  \A k \in DOMAIN loop[t].messages :
                      \E r \in rows : r.id = loop[t].messages[k].id

WitC3 ==
    \E t \in Tasks :
        /\ StepDone(t)
        /\ loop[t].c0 # None
        /\ Len(loop[t].messages) >= 2
        /\ FirstAt(loop[t].messages, loop[t].c0) = 0
        /\ loop[t].first_fail = 0

\* C4: a reconcile step whose scrape returns an empty batch calls save_sms
\* for no message and leaves last_seen_id and the table unchanged.
PropC4 ==
    [][\A t \in Tasks :
          (/\ loop[t].pc = "scrape"
           /\ loop'[t].pc = "sleep"
           /\ loop'[t].messages = <<>>) =>
             /\ loop'[t].saved = <<>>
             /\ last_seen_id' = last_seen_id
             /\ rows' = rows]_vars

WitC4 ==
    \E t \in Tasks :
        /\ StepDone(t)
        /\ loop[t].messages = <<>>
        /\ loop[t].c0 # None
        /\ rows # {}

\* C5: when a reconcile step on a non-empty batch completes, last_seen_id is
\* the id of the first (newest) row of the batch.
InvC5 ==
    \A t \in Tasks :
        (StepDone(t) /\ loop[t].messages # <<>>) =>
            loop[t].c1 = loop[t].messages[1].id

WitC5 ==
    \E t \in Tasks :
        /\ StepDone(t)
        /\ Len(loop[t].saved) = 1
        /\ Len(loop[t].messages) = 2
        /\ loop[t].c0 # None

\* C6: on a first run (last_seen_id null) with a non-empty batch, every row
\* is handed to save_sms and the cursor ends at the newest row, in a poll
\* cycle and in the initial load alike.
CexC6 ==
    /\ \A t \in Tasks :
          (StepDone(t) /\ loop[t].c0 = None /\ loop[t].messages # <<>>) =>
             /\ SameElements(loop[t].saved, IdsOf(loop[t].messages),
                             Len(loop[t].messages))
             /\ loop[t].c1 = loop[t].messages[1].id
    /\ (LoadDone /\ load.c0 = None /\ load.messages # <<>>) =>
          /\ SameElements(load.saved, IdsOf(load.messages), Len(load.messages))
          /\ load.c1 = load.messages[1].id

\* saved, the calls of save_sms in call order, runs through the first
\* Len(saved) rows of the newest-first listing from the oldest to the newest.
OldestFirst(saved, messages) ==
    \A j \in DOMAIN saved : saved[j] = messages[Len(saved) + 1 - j].id

\* C7: the messages of one batch are handed to save_sms oldest-first, in the
\* initial load and in every poll cycle.
CexC7 ==
    /\ \A t \in Tasks : StepDone(t) => OldestFirst(loop[t].saved, loop[t].messages)
    /\ LoadDone => OldestFirst(load.saved, load.messages)

\* A save_sms call for id returns in this step.
SaveCallOf(id) ==
    \/ \E t \in Tasks : /\ loop'[t].i = loop[t].i + 1
                        /\ loop'[t].saved[loop'[t].i] = id
    \/ /\ load'.i = load.i + 1
       /\ load'.saved[load'.i] = id

\* C8: save_sms of an id that is already stored leaves the stored row, its
\* received_at and its forwarded flag as they were.
CexC8 ==
    [][\A r \in rows : SaveCallOf(r.id) => r \in rows']_vars

\* C9: when save_sms failed for a message of a reconcile step, the step does
\* not end with last_seen_id at that message or at one saved after it.
CexC9 ==
    \A t \in Tasks :
        (StepDone(t) /\ loop[t].first_fail # 0) =>
            \A k \in loop[t].first_fail..Len(loop[t].saved) :
                loop[t].c1 # loop[t].saved[k]

\* C10: the table holds at most one row per message id.
InvC10 ==
    \A r1, r2 \in rows : r1.id = r2.id => r1 = r2

WitC10 ==
    \E t \in Tasks :
        /\ StepDone(t)
        /\ loop[t].first_fail = 0
        /\ Len(loop[t].saved) = 2
        /\ loop[t].saved[1] = loop[t].saved[2]
        /\ \E r \in rows : r.id = loop[t].saved[1] /\ r.received_at > 1

\* ---------------------------------------------------------------- C11
\* A step of the Storage API that is a call of op: every call writes ret.
CallStep(op) == ret'.op = op /\ <<ret, rows, bot_state>>' # <<ret, rows, bot_state>>

\* The call neither found the connection missing nor had sqlite raise.
Executed(r) == r.outcome = "ok"

CexC12 ==
    /\ (ret.op = "get_recent_sms" /\ Executed(ret)) =>
          /\ Len(ret.value) = Min(ret.arg, Len(ingested))
          /\ \A k \in 1..Len(ret.value) :
                ret.value[k].id = ingested[Len(ingested) + 1 - k]
    /\ (ret.op = "get_last_sms" /\ Executed(ret)) =>
          IF ingested = <<>>
            THEN ret.value = <<>>
            ELSE Len(ret.value) = 1
                 /\ ret.value[1].id = ingested[Len(ingested)]

CexC14 ==
    (ret.op = "save_sms" /\ ret.outcome # "sqlite_error") =>
        /\ ret.value = <<TRUE>>
        /\ \E r \in rows : r.id = ret.arg

\* ---------------------------------------------------------------- C15
\* C15: the first poll cycle of a restarted process reads the cursor the
\* previous process had set by its last ingestion, unless the start-up load
\* of the new process has ingested a batch since (which sets an id): it reads
\* null only if the previous process had ingested nothing.
CexC15 ==
    (boot.restarted /\ boot.polled /\ boot.read = None) => boot.cursor = None

\* ---------------------------------------------------------------- C16
\* C16: at most one _monitoring_loop task exists at any time.
CexC16 == Cardinality({t \in Tasks : loop[t].pc # "none"}) <= 1

\* ---------------------------------------------------------------- C17
\* C17: while a task is in a poll cycle, between the start of its scrape and
\* the end of its reconcile, no command handler is working on the page.
CexC17 == \A t \in Tasks : InCycle(t) => hpc = "idle"

\* ---------------------------------------------------------------- C18
\* C18: whatever a scrape returns and whatever save_sms returns, a poll cycle
\* ends in the loop's sleep, never in the end of the loop; and a task leaves
\* the sleep for another cycle whenever is_monitoring is true, the loop
\* ending only when it is false.
PropC18 ==
    [][\A t \in Tasks :
          /\ InCycle(t) => loop'[t].pc \in {"scrape", "save", "sleep"}
          /\ (loop[t].pc = "sleep" /\ loop'[t].pc # "sleep") =>
                loop'[t].pc = IF is_monitoring THEN "scrape" ELSE "none"]_vars

\* A cycle in which a save_sms failed has ended in the sleep, monitoring on.
WitC18 ==
    \E t \in Tasks :
        StepDone(t) /\ loop[t].first_fail # 0 /\ is_monitoring

\* ---------------------------------------------------------------- C19
\* C19: whenever the session is not valid while the monitor is monitoring
\* with a loop task alive, the session is valid again later on (the monitor
\* having logged in again), unless monitoring is stopped.
CexC19 ==
    (is_monitoring /\ ~session_valid /\ \E t \in Tasks : loop[t].pc # "none")
        ~> (session_valid \/ ~is_monitoring)

\* ---------------------------------------------------------------- C20
\* C20: no step closes the browser context while some task is in a poll
\* cycle, between the start of its scrape and the end of its reconcile.
CexC20 ==
    [][(context = "open" /\ context' = "closed") =>
          \A t \in Tasks : ~InCycle(t)]_vars

\* ---------------------------------------------------------------- C21
\* The row of the page a scraped message was made from.
RowOf(m) == listing[m.row]

SameMessage(r1, r2) ==
    /\ r1.sender = r2.sender
    /\ r1.timestamp = r2.timestamp
    /\ r1.body = r2.body

\* C21: the same underlying message (same sender, displayed timestamp and
\* body) has the same id in any two scrapes, also when a later process made
\* the second one.
CexC21 ==
    \A r1, r2 \in DOMAIN scrapes :
      \A i \in DOMAIN scrapes[r1].messages,
         j \in DOMAIN scrapes[r2].messages :
          LET m1 == scrapes[r1].messages[i]
              m2 == scrapes[r2].messages[j]
          IN  SameMessage(RowOf(m1), RowOf(m2)) => m1.id = m2.id

\* ---------------------------------------------------------------- C22
\* C22: two rows of one scrape that differ in sender, displayed timestamp or
\* body never get the same id.
CexC22 ==
    \A r \in DOMAIN scrapes :
      \A i, j \in DOMAIN scrapes[r].messages :
          LET m1 == scrapes[r].messages[i]
              m2 == scrapes[r].messages[j]
          IN  ~SameMessage(RowOf(m1), RowOf(m2)) => m1.id # m2.id

\* ---------------------------------------------------------------- C23
\* C23: when start() returns False, is_logged_in is False as it returns,
\* also on a monitor that had logged in before.
CexC23 ==
    [][(start /\ ~life'.returned) => ~is_logged_in']_vars

\* ---------------------------------------------------------------- C24
\* C24: as cleanup() returns, is_monitoring is False and the context and the
\* browser are closed, from any state and also when context.close() raised
\* (the object whose own close() raised is not asked to be closed).
CexC24 ==
    [][cleanup =>
          /\ ~is_monitoring'
          /\ life'.closing # "context_raised" => context' # "open"
          /\ life'.closing # "browser_raised" => browser' # "open"]_vars

\* ---------------------------------------------------------------- C25
Trimmed(s) == s = <<>> \/ (Head(s) # Space /\ s[Len(s)] # Space)

\* C25: every message the scraper returns has a body that is not empty, and
\* its sender and body carry no surrounding whitespace.
CexC25 ==
    \A r \in DOMAIN scrapes :
      \A i \in DOMAIN scrapes[r].messages :
          LET m == scrapes[r].messages[i]
          IN  /\ m.message # <<>>
              /\ Trimmed(m.message)
              /\ Trimmed(m.sender)

\* ---------------------------------------------------------------- C26
\* The rows whose extraction succeeds and that have a body text.
Extracted(pg) == {k \in DOMAIN pg : ~pg[k].raises /\ pg[k].body # <<>>}

\* C26: a scrape that finds the list returns one message for each row that
\* extracts and has a body text, none for any other row, in the order of
\* the listing, whatever rows raise.
InvC26 ==
    \A r \in DOMAIN scrapes :
      scrapes[r].found =>
        LET ms == scrapes[r].messages
        IN  /\ {ms[i].row : i \in DOMAIN ms} = Extracted(listing)
            /\ Len(ms) = Cardinality(Extracted(listing))
            /\ \A i, j \in DOMAIN ms : i < j => ms[i].row < ms[j].row

\* A row that raises stands before one that extracts, and the scrape
\* returned the second alone.
WitC26 ==
    /\ Len(listing) = 2
    /\ listing[1].raises
    /\ 2 \in Extracted(listing)
    /\ scrapes # <<>>
    /\ scrapes[Len(scrapes)].found
    /\ Len(scrapes[Len(scrapes)].messages) = 1
    /\ scrapes[Len(scrapes)].messages[1].row = 2

\* ---------------------------------------------------------------- C27
\* The cycle of record rec read a cursor that its batch, not empty, does not
\* hold.
CursorAnomaly(rec) ==
    /\ rec.c0 # None
    /\ rec.messages # <<>>
    /\ \A k \in DOMAIN rec.messages : rec.messages[k].id # rec.c0

\* C27: a cycle whose cursor is set and not found in its batch, not empty,
\* has logged a warning by the time it ends.
CexC27 ==
    \A t \in Tasks :
        (StepDone(t) /\ CursorAnomaly(loop[t])) => "warning" \in CheckLog(loop[t])

\* ---------------------------------------------------------------- C28
\* A save of the cycle of record rec failed.
CycleFailed(rec) == rec.first_fail # 0

\* C28: the sleep that follows a cycle is shorter than poll_interval when
\* the cycle failed (whichever branch of the loop it took), and is
\* poll_interval when it succeeded.
CexC28 ==
    \A t \in Tasks :
        StepDone(t) =>
            IF CycleFailed(loop[t])
              THEN \E raised \in BOOLEAN : LoopSleep(raised) < poll_interval
              ELSE LoopSleep(FALSE) = poll_interval

\* ---------------------------------------------------------------- C29
\* C29: when start() returns False because _login failed (the site kept
\* the login form, or a step of the login raised), the context and the
\* browser are closed as it returns.
CexC29 ==
    [][(start /\ life'.login \in {"rejected", "login_raised"}) =>
          (context' # "open" /\ browser' # "open")]_vars

\* ---------------------------------------------------------------- C30
\* C30: _handle_popup makes at most max_attempts turns of its loop and at
\* most max_attempts clicks, and whenever it was called with a page it
\* returns True: with no popup, with no button, and after clicks or other
\* steps that raised.
InvC30 ==
    /\ popup.attempt <= max_attempts
    /\ popup.clicks <= max_attempts
    /\ (popup.pc = "returned" /\ popup.had_page) => popup.result = <<TRUE>>

\* A call that clicked max_attempts times, the last click raising, and
\* returned.
WitC30 ==
    /\ popup.pc = "returned"
    /\ popup.had_page
    /\ popup.clicks = max_attempts
    /\ popup.seen = "next_raised"

\* ---------------------------------------------------------------- C31
\* C31: start() on a monitor that is logged in and holds an open browser
\* runs no login sequence and launches no browser in place of the open one.
CexC31 ==
    [][(start /\ is_logged_in /\ browser = "open") =>
          (life'.login = "none" /\ ~life'.replaced)]_vars

\* ---------------------------------------------------------------- C32
\* C32: on an open connection a save_sms of the monitor and a
\* mark_forwarded of the bot are never both under way.
CexC32 ==
    ~ /\ connection
      /\ inflight["monitor"].op = "save_sms"
      /\ inflight["bot"].op = "mark_forwarded"

\* ---------------------------------------------------------------- C33
\* The clock of the model has run out under a scrape that would read it.
ClockOut(t) ==
    loop[t].pc = "scrape" /\ now = MaxClock /\ Listings # {<<>>}

\* C33: is_monitoring goes from True to False only in cleanup() (called on
\* its own or by the except of start()); a loop task ends only with
\* is_monitoring False; with is_monitoring False a task at its while test
\* begins no poll cycle and ends; and a task alive while is_monitoring is
\* False ends unless monitoring is started again.
PropC33 ==
    /\ [][/\ (is_monitoring /\ ~is_monitoring') => (Cleanup \/ Start)
          /\ \A t \in Tasks :
                /\ (loop[t].pc # "none" /\ loop'[t].pc = "none")
                      => ~is_monitoring
                /\ (~is_monitoring /\ loop[t].pc \in {"loop", "sleep"}
                                   /\ loop'[t] # loop[t])
                      => loop'[t].pc = "none"]_vars
    /\ \A t \in Tasks :
          (~is_monitoring /\ loop[t].pc # "none")
              ~> (is_monitoring \/ loop[t].pc = "none" \/ ClockOut(t))

\* Every task has ended after a poll cycle and a cleanup().
WitC33 ==
    /\ ~is_monitoring
    /\ context = "closed"
    /\ last_run # <<>>
    /\ \A t \in Tasks : loop[t].pc = "none"

\* ---------------------------------------------------------------- C38
\* C34: the first poll cycle after an initial load, when it scrapes the
\* listing the load read, finds no new message and goes to sleep without a
\* save_sms.
CexC34 ==
    [][\A t \in Tasks :
          (/\ CheckScrape(t)
           /\ mpc = "idle"
           /\ loaded = <<IdsOf(loop'[t].messages)>>)
             => (loop'[t].new_messages = <<>> /\ loop'[t].pc = "sleep")]_vars

\* C35: no step takes a stored message's forwarded flag from true back to
\* false, and none changes the received_at of a stored message.
CexC35 ==
    [][\A r \in rows :
          \E r2 \in rows' : /\ r2.id = r.id
                            /\ r2.received_at = r.received_at
                            /\ r.forwarded => r2.forwarded]_vars

\* C36: in the running bot every save_sms of the monitor, in the initial
\* load and in a poll cycle, runs on a Storage whose initialize() has
\* connected.
CexC36 ==
    [][(\E id \in MsgIds : SaveCallOf(id)) => connection]_vars

CexC39 ==
    [][/\ HandleHistory => last_seen_id' = last_seen_id
       /\ \A t \in Tasks :
             (CheckScrape(t) /\ history_view)
                => loop'[t].new_messages = <<>>]_vars

\* C40: an update of a sender who is not in admin_ids leads to no Storage
\* query, scrape, chat send of a message or mark_forwarded; /status, /config,
\* /recent, /last, /history and /getotp of such a sender, and /set_admin and
\* /restart of every sender but admin_ids[0], end with the access-denied
\* reply; and admin_ids changes only in a step that handles an update sent
\* by admin_ids[0].
PropC40 ==
    /\ [](dispatched.command # "none" =>
            /\ dispatched.sender \notin SeqRange(dispatched.admins)
                  => dispatched.calls = {}
            /\ (/\ dispatched.command \in {"status", "config", "recent",
                                            "last", "history", "getotp"}
                /\ dispatched.sender \notin SeqRange(dispatched.admins))
                  => (dispatched.denied /\ dispatched.calls = {})
            /\ (/\ dispatched.command \in {"set_admin", "restart"}
                /\ dispatched.sender # dispatched.admins[1])
                  => (dispatched.denied /\ dispatched.calls = {}))
    /\ [][admin_ids' # admin_ids =>
             /\ dispatched'.sender = admin_ids[1]
             /\ dispatched'.admins = admin_ids]_vars

\* An admin who is not the owner was refused /set_admin.
WitC40 ==
    /\ dispatched.command = "set_admin"
    /\ dispatched.denied
    /\ dispatched.sender \in SeqRange(dispatched.admins)
    /\ admin_ids = dispatched.admins

\* C38: _send_sms_message calls mark_forwarded only when bot.send_message
\* returned: after a send that raised there is no call for that message.
InvC38 ==
    /\ fwd.marked => fwd.sent = "ok"
    /\ inflight["bot"].op = "mark_forwarded" =>
          (fwd.sent = "ok" /\ inflight["bot"].arg = fwd.id)
    /\ fwd.sent = "raised" => (fwd.pc = "returned" /\ ~fwd.marked)

\* A send raised and _send_sms_message has returned.
WitC38 ==
    /\ fwd.pc = "returned"
    /\ fwd.sent = "raised"
    /\ inflight["bot"] = NoRun

TypeOK ==
    /\ connection \in BOOLEAN
    /\ page \in BOOLEAN
    /\ is_logged_in \in BOOLEAN
    /\ is_monitoring \in BOOLEAN
    /\ last_seen_id \in MsgIds \cup {None}
    /\ now \in 0..MaxClock
    /\ mpc \in {"idle", "load_scrape", "load_save", "spawn"}
    /\ \A r \in rows : r.id \in MsgIds /\ r.received_at \in 0..MaxClock
                        /\ r.forwarded \in BOOLEAN
                        /\ r.created_at \in 0..MaxClock
    /\ \A t \in Tasks : loop[t].pc \in {"none", "loop", "scrape", "save", "sleep"}
    /\ context \in {"none", "open", "closed"}
    /\ session_valid \in BOOLEAN
    /\ session_valid => context = "open"
    /\ page => context # "none"
    /\ hpc \in {"idle", "getotp", "history"}
    /\ bot_state \in [Keys -> Values \cup {None}]
    /\ last_set \in [Keys -> Values \cup {None}]
    /\ ret.op \in {"none", "save_sms", "mark_forwarded", "get_recent_sms",
                   "get_last_sms", "set_state", "get_state"}
    /\ ret.outcome \in {"ok", "no_connection", "sqlite_error"}
    /\ \A k \in DOMAIN ingested : ingested[k] \in MsgIds
    /\ listing \in Pages
    /\ hash_fn \in HashFns
    /\ Len(scrapes) <= 2
    /\ browser \in {"none", "open", "closed"}
    /\ context # "none" => browser # "none"
    /\ Len(loaded) <= 1
    /\ \A k \in DOMAIN loaded : loaded[k] \in Batches
    /\ history_view \in BOOLEAN
    /\ history_view => page
    /\ life.op \in {"none", "start", "cleanup"}
    /\ life.returned \in BOOLEAN
    /\ popup.pc \in {"idle", "detect", "attempt", "settle", "returned"}
    /\ \A c \in Callers : inflight[c].op \in {"none", "save_sms",
                                                "mark_forwarded"}
    /\ fwd.pc \in {"idle", "send", "mark", "returned"}
    /\ Len(admin_ids) >= 1
    /\ \A k \in DOMAIN admin_ids : admin_ids[k] \in Users
    /\ fsm_state \in [Users -> {"none", "waiting_for_admin_id"}]
    /\ dispatched.command \in Commands \cup {"none"}
    /\ dispatched.denied \in BOOLEAN
    /\ fwd.pc = "mark" <=> inflight["bot"].op = "mark_forwarded"
    /\ popup.pc = "returned" <=> popup.result # <<>>
====
